---- MODULE Spec2Model ----
(***************************************************************************)
(* HyperAide Browser Auth Sync CLI (src/main.py).                          *)
(*                                                                         *)
(* One behaviour of this module is one invocation of the command line      *)
(* program: the typer callback, then one of the three commands (sync,      *)
(* status, reset).  The remote server, the Chrome window driven through    *)
(* Playwright and the user at the keyboard are the environment: their      *)
(* moves are actions of their own (User..., Jar..., Browser...), the       *)
(* server's answer is the input of the action that issues the request.     *)
(*                                                                         *)
(* Strings are TLA+ strings; Len, SubSeq and \o are applied to them, so    *)
(* that lower(), lstrip(), replace(), the substring test of is_auth_cookie *)
(* and the netloc split of urlparse are computed character by character.   *)
(***************************************************************************)
EXTENDS Integers, Sequences, FiniteSets, TLC

(***************************************************************************)
(* Bounds of the model.                                                    *)
(***************************************************************************)
\* pages the context ever holds during one session (the first one included)
MaxPages == 2

\* longest domain string normalize_domain is applied to on its own
MaxLen == 5

(***************************************************************************)
(* Python values.                                                          *)
(***************************************************************************)
\* Python's None (an unset option, an unset environment variable)
None == "<None>"

\* truthiness of an Optional[str]: None and "" are falsy
Truthy(s) == s # None /\ s # ""

(***************************************************************************)
(* String helpers: str.lower, str.lstrip(chars), str.replace(old, ""),     *)
(* str.find and the `in` operator.                                         *)
(***************************************************************************)
CharAt(s, i) == SubSeq(s, i, i)

StrTail(s, i) == SubSeq(s, i, Len(s))

\* str.lower() on one character (ASCII)
LowerChar(c) ==
    CASE c = "A" -> "a"
      [] c = "B" -> "b"
      [] c = "C" -> "c"
      [] c = "D" -> "d"
      [] c = "E" -> "e"
      [] c = "F" -> "f"
      [] c = "G" -> "g"
      [] c = "H" -> "h"
      [] c = "I" -> "i"
      [] c = "J" -> "j"
      [] c = "K" -> "k"
      [] c = "L" -> "l"
      [] c = "M" -> "m"
      [] c = "N" -> "n"
      [] c = "O" -> "o"
      [] c = "P" -> "p"
      [] c = "Q" -> "q"
      [] c = "R" -> "r"
      [] c = "S" -> "s"
      [] c = "T" -> "t"
      [] c = "U" -> "u"
      [] c = "V" -> "v"
      [] c = "W" -> "w"
      [] c = "X" -> "x"
      [] c = "Y" -> "y"
      [] c = "Z" -> "z"
      [] OTHER -> c

RECURSIVE StrLower(_)
StrLower(s) ==
    IF Len(s) = 0 THEN ""
    ELSE LowerChar(CharAt(s, 1)) \o StrLower(StrTail(s, 2))

\* s.rstrip(c): every trailing occurrence of the character c is removed
RECURSIVE RStrip(_, _)
RStrip(s, c) ==
    IF Len(s) > 0 /\ CharAt(s, Len(s)) = c THEN RStrip(SubSeq(s, 1, Len(s) - 1), c) ELSE s

\* s.lstrip(c): every leading occurrence of the character c is removed
RECURSIVE LStrip(_, _)
LStrip(s, c) ==
    IF Len(s) > 0 /\ CharAt(s, 1) = c THEN LStrip(StrTail(s, 2), c) ELSE s

StartsWith(s, p) == Len(s) >= Len(p) /\ SubSeq(s, 1, Len(p)) = p

\* s.replace(old, ""): every non-overlapping occurrence, scanning left to right
RECURSIVE StrRemoveAll(_, _)
StrRemoveAll(s, old) ==
    IF Len(s) = 0 THEN ""
    ELSE IF StartsWith(s, old) THEN StrRemoveAll(StrTail(s, Len(old) + 1), old)
    ELSE CharAt(s, 1) \o StrRemoveAll(StrTail(s, 2), old)

\* `p in s` for strings
Contains(s, p) == \E i \in 1..(Len(s) - Len(p) + 1) : SubSeq(s, i, i + Len(p) - 1) = p

\* s.find(c, start) for a character c, 1-based; 0 when c does not occur
StrFind(s, c, start) ==
    IF \E i \in start..Len(s) : CharAt(s, i) = c
    THEN CHOOSE i \in start..Len(s) :
            /\ CharAt(s, i) = c
            /\ \A j \in start..(i - 1) : CharAt(s, j) # c
    ELSE 0

(***************************************************************************)
(* Configuration (src/main.py 104-113).                                    *)
(***************************************************************************)
DEFAULT_API_URL == "https://api.hyperaide.com"

DEV_API_URL == "http://localhost:4000"

DEFAULT_WELCOME_URL == "https://hyperaide.com/browser-sync/welcome"

DEV_WELCOME_URL == "http://localhost:3000/browser-sync/welcome"

AUTH_COOKIE_PATTERNS ==
    << "session", "token", "auth", "jwt", "login", "user", "sid", "csrf",
       "_session", "_token", "_auth", "access", "refresh", "id_token" >>

(***************************************************************************)
(* Domain utilities (src/main.py 188-217).                                 *)
(***************************************************************************)
\* cookie.get("name", ""): a cookie dict may lack the key
CookieName(cookie) == IF "name" \in DOMAIN cookie THEN cookie.name ELSE ""

\* cookie.get("httpOnly", False)
CookieHttpOnly(cookie) == IF "httpOnly" \in DOMAIN cookie THEN cookie.httpOnly ELSE FALSE

\* is_auth_cookie without the .lower() of the name
is_auth_cookie_cased(cookie) ==
    LET name == CookieName(cookie)
    IN  \/ \E k \in DOMAIN AUTH_COOKIE_PATTERNS : Contains(name, AUTH_COOKIE_PATTERNS[k])
        \/ CookieHttpOnly(cookie)

is_auth_cookie(cookie) ==
    LET name == StrLower(CookieName(cookie))
    IN  \/ \E k \in DOMAIN AUTH_COOKIE_PATTERNS : Contains(name, AUTH_COOKIE_PATTERNS[k])
        \/ CookieHttpOnly(cookie)

normalize_domain(domain) ==
    IF domain = "" THEN ""
    ELSE StrLower(StrRemoveAll(LStrip(domain, "."), "www."))

\* urllib.parse.urlsplit: the scheme is what precedes the first ':' when it is
\* a letter followed by letters, digits, '+', '-' or '.'
SchemeLetters ==
    { "a", "b", "c", "d", "e", "f", "g", "h", "i", "j", "k", "l", "m", "n", "o", "p"
      , "q", "r", "s", "t", "u", "v", "w", "x", "y", "z",
      "A", "B", "C", "D", "E", "F", "G", "H", "I", "J", "K", "L", "M", "N", "O", "P"
      , "Q", "R", "S", "T", "U", "V", "W", "X", "Y", "Z" }

SchemeChars ==
    SchemeLetters \cup { "0", "1", "2", "3", "4", "5", "6", "7", "8", "9", "+", "-", "." }

SchemeEnd(url) ==
    LET i == StrFind(url, ":", 1)
    IN  IF /\ i > 1
           /\ CharAt(url, 1) \in SchemeLetters
           /\ \A j \in 1..(i - 1) : CharAt(url, j) \in SchemeChars
        THEN i ELSE 0

\* urllib.parse._splitnetloc: the netloc runs from after "//" to the first of
\* '/', '?', '#' (or to the end of the string)
SplitNetloc(rest) ==
    LET ends == { StrFind(rest, c, 3) : c \in { "/", "?", "#" } } \ { 0 }
        delim == IF ends = {} THEN Len(rest) + 1
                 ELSE CHOOSE e \in ends : \A f \in ends : e <= f
    IN  SubSeq(rest, 3, delim - 1)

UrlRest(url) == StrTail(url, SchemeEnd(url) + 1)

UrlNetloc(url) == IF StartsWith(UrlRest(url), "//") THEN SplitNetloc(UrlRest(url)) ELSE ""

\* urlsplit raises ValueError("Invalid IPv6 URL") on an unbalanced bracket
UrlParseRaises(url) ==
    LET netloc == UrlNetloc(url)
    IN  \/ Contains(netloc, "[") /\ ~Contains(netloc, "]")
        \/ Contains(netloc, "]") /\ ~Contains(netloc, "[")

extract_domain_from_url(url) ==
    IF UrlParseRaises(url) THEN "" ELSE normalize_domain(UrlNetloc(url))

(***************************************************************************)
(* Inputs of one invocation.                                               *)
(***************************************************************************)
\* values of the --api-key option as the command receives it
ApiKeyArgs == { None, "", "arg-key" }

\* values of the HYPERAIDE_API_KEY environment variable
ApiKeyEnvs == { None, "", "env-key" }

\* values of the HYPERAIDE_API_URL environment variable
ApiUrlEnvs == { None }

\* values of the HYPERAIDE_DEV environment variable before the program starts
DevEnvs == { None }

\* every way the environment can set HYPERAIDE_API_URL and HYPERAIDE_DEV
ApiUrlEnvsAll == { None, "", "http://staging.test/" }

DevEnvsAll == { None, "0", "1" }

\* the sub-commands; no sub-command runs sync_browser_auth from the callback,
\* as the sync command does
Commands == { "sync", "status", "reset" }

\* what a remote call can come back with: a status code, or httpx.RequestError
RequestError == "RequestError"

Responses == { "200", "400", "401", "500", RequestError }

\* the connected_sites list of a 200 answer of the complete call
SiteLists == { << >>, << "a.com" >> }

\* cookies the browser's jar can hold, as context.cookies() returns them
CookieAuthToken == [name |-> "auth_token", domain |-> "a.com", httpOnly |-> FALSE]

CookieTheme == [name |-> "theme", domain |-> "a.com", httpOnly |-> FALSE]

CookieThemeHttpOnly == [name |-> "theme", domain |-> "sub.b.com", httpOnly |-> TRUE]

CookieSessionId == [name |-> "SessionID", domain |-> "sub.b.com", httpOnly |-> FALSE]

\* contents of the cookie jar the user's browsing can produce
Jars ==
    { << >>,
      << CookieTheme >>,
      << CookieAuthToken, CookieTheme >>,
      << CookieThemeHttpOnly, CookieSessionId >> }

\* URLs the user's pages and frames navigate to
NavUrls ==
    { "https://a.com/login",
      "https://www.A.com/",
      "https://sub.b.com/x?y=1",
      "about:blank",
      "http://[::1/" }

PageIds == 1..MaxPages

\* extract_domain_from_url over the URLs of the model, computed once
UrlDomains ==
    [url \in NavUrls \cup { DEFAULT_WELCOME_URL, DEV_WELCOME_URL } |->
        extract_domain_from_url(url)]

\* answers to typer.confirm
Answers == { "y", "n" }

\* a result that has not been produced yet
Pending == [pending |-> TRUE]

\* a request without a body
NoBody == [empty |-> TRUE]

\* the characters of the domain strings normalize_domain is applied to
Alphabet == { ".", "w", "a", "W" }

RECURSIVE StringsUpTo(_)
\* every string of at most n characters of the alphabet
StringsUpTo(n) ==
    IF n = 0 THEN { "" }
    ELSE LET S == StringsUpTo(n - 1)
         IN  S \cup { s \o c : s \in S, c \in Alphabet }

DomainStrings == StringsUpTo(MaxLen)

\* names of the cookie dicts is_auth_cookie is applied to
CookieNames ==
    { "", "sessionid", "theme", "SessionID", "AUTH", "sid", "side", "JWT_v",
      "csrf", "user", "Login", "access", "refresh", "id_token", "_token",
      "tok", "locale", "au_th" }

\* cookie dicts: with and without the "name" key, with and without "httpOnly"
CookieDicts ==
    { [name |-> n, httpOnly |-> h] : n \in CookieNames, h \in BOOLEAN }
        \cup { [name |-> n, domain |-> "a.com"] : n \in CookieNames }
        \cup { [httpOnly |-> h, domain |-> "a.com"] : h \in BOOLEAN }
        \cup { [domain |-> "a.com"] }

(***************************************************************************)
(* State.                                                                  *)
(***************************************************************************)
VARIABLES
    cmd,             \* the command this invocation runs
    force,           \* the --force flag of reset
    dev,             \* the --dev flag of the callback
    environ,         \* os.environ: HYPERAIDE_API_KEY, HYPERAIDE_API_URL, HYPERAIDE_DEV
    pc,              \* the statement the program is at
    api_key,         \* the command's api_key: the --api-key option at first, then the
                     \* token require_api_key returned (458, 531, 593)
    requests,        \* the remote calls issued so far, in order
    start_status,    \* what the start call came back with (None before)
    complete_status, \* what the complete call came back with (None before)
    result,          \* the dict complete_sync returned (Pending before)
    exit_code,       \* None while running, "0" on return, "1" after sys.exit(1)
    prompted,        \* typer.confirm has been shown
    confirm,         \* the user's answer to it (None before)
    browser,         \* "none", "open" (launched), "closed" (close() attempted)
    reachable,       \* the browser process answers the driver
    handler_set,     \* context.on("page", on_page_created) is registered
    pages,           \* context.pages: the open pages
    n_pages,         \* pages created so far in the context
    subscribed,      \* pages whose framenavigated event on_page_created listens to
    jar,             \* the browser's live cookie jar
    visited_domains, \* run_browser_session's visited_domains
    cookies,         \* run_browser_session's cookies (the last snapshot read)
    sync_requested,  \* run_browser_session's sync_requested
    interrupted,     \* KeyboardInterrupt reached the polling loop
    session_result,  \* what run_browser_session returned (Pending before)
    top_domains,     \* history: extract_domain_from_url of every top-level-frame
                     \* navigation that occurred on a page of the context
    last_read,       \* history: what the last context.cookies() that returned gave
    read_dropped,    \* history: the snapshot that read replaced held a cookie the
                     \* read did not give
    filter_runs,     \* history: times the is_auth_cookie filter (367) has run
    loop_exit,       \* history: why the polling loop was left (None inside it)
    close_raised,    \* history: browser.close() raised (362-364)
    fn,              \* a domain utility under test on its own (None in the program)
    fn_arg,          \* its argument
    fn_val           \* its successive results

cli_vars == << cmd, force, dev >>

flow_vars == << api_key, requests, start_status, complete_status, result, exit_code, prompted, confirm >>

browser_vars == << browser, reachable, handler_set, pages, n_pages, subscribed, jar >>

session_vars == << visited_domains, cookies, sync_requested, interrupted, session_result, top_domains >>

hist_vars == << last_read, read_dropped, filter_runs, loop_exit, close_raised >>

util_vars == << fn, fn_arg, fn_val >>

vars == << cli_vars, environ, pc, flow_vars, browser_vars, session_vars, hist_vars, util_vars >>

\* nothing has run yet: no call, no prompt, no browser, no session
Fresh ==
    /\ requests = << >>
    /\ start_status = None
    /\ complete_status = None
    /\ result = Pending
    /\ exit_code = None
    /\ prompted = FALSE
    /\ confirm = None
    /\ browser = "none"
    /\ reachable = FALSE
    /\ handler_set = FALSE
    /\ pages = {}
    /\ n_pages = 0
    /\ subscribed = {}
    /\ jar = << >>
    /\ visited_domains = {}
    /\ cookies = << >>
    /\ sync_requested = FALSE
    /\ interrupted = FALSE
    /\ session_result = Pending
    /\ top_domains = {}
    /\ last_read = << >>
    /\ read_dropped = FALSE
    /\ filter_runs = 0
    /\ loop_exit = None
    /\ close_raised = FALSE

\* no domain utility is under test
NoUtility == fn = None /\ fn_arg = None /\ fn_val = << >>

Init ==
    /\ cmd \in Commands
    /\ force \in (IF cmd = "reset" THEN BOOLEAN ELSE { FALSE })
    /\ dev \in BOOLEAN
    /\ environ \in [ HYPERAIDE_API_KEY : ApiKeyEnvs,
                     HYPERAIDE_API_URL : ApiUrlEnvs,
                     HYPERAIDE_DEV : DevEnvs ]
    /\ pc = "callback"
    /\ api_key \in ApiKeyArgs
    /\ Fresh
    /\ NoUtility

(***************************************************************************)
(* Configuration lookups (src/main.py 116-152).                            *)
(***************************************************************************)
\* get_api_url with the development switch tested before the override
get_api_url_dev_first ==
    IF environ.HYPERAIDE_DEV = "1" THEN DEV_API_URL
    ELSE IF Truthy(environ.HYPERAIDE_API_URL) THEN RStrip(environ.HYPERAIDE_API_URL, "/")
    ELSE DEFAULT_API_URL

get_api_url ==
    IF Truthy(environ.HYPERAIDE_API_URL) THEN RStrip(environ.HYPERAIDE_API_URL, "/")
    ELSE IF environ.HYPERAIDE_DEV = "1" THEN DEV_API_URL
    ELSE DEFAULT_API_URL

get_welcome_url ==
    IF environ.HYPERAIDE_DEV = "1" THEN DEV_WELCOME_URL ELSE DEFAULT_WELCOME_URL

get_api_key == environ.HYPERAIDE_API_KEY

\* require_api_key with `if env_key is not None` for `if env_key`: an empty
\* HYPERAIDE_API_KEY is accepted as the token
ResolveApiKeyEmptyEnv(arg) ==
    IF Truthy(arg) THEN arg
    ELSE IF get_api_key # None THEN get_api_key
    ELSE None

\* the key require_api_key returns; None stands for the sys.exit(1) branch
ResolveApiKey(arg) ==
    IF Truthy(arg) THEN arg
    ELSE IF Truthy(get_api_key) THEN get_api_key
    ELSE None

\* a remote call as httpx issues it
Request(op, method, path, key, body) ==
    [op |-> op, method |-> method, url |-> get_api_url \o path, key |-> key, body |-> body]

\* sys.exit(1)
Exit1 == pc' = "exit" /\ exit_code' = "1"

\* the command function returns and the process ends with status 0
Return0 == pc' = "done" /\ exit_code' = "0"

(***************************************************************************)
(* callback (src/main.py 60-86).                                           *)
(***************************************************************************)
Callback ==
    /\ pc = "callback"
    /\ environ' = IF dev THEN [environ EXCEPT !.HYPERAIDE_DEV = "1"] ELSE environ
    /\ pc' = "require_api_key"
    /\ UNCHANGED << cli_vars, util_vars, hist_vars, flow_vars, browser_vars, session_vars >>

(***************************************************************************)
(* require_api_key, first statement of sync_browser_auth (458), reset      *)
(* (531) and status (593).                                                 *)
(***************************************************************************)
RequireApiKey ==
    /\ pc = "require_api_key"
    /\ IF ResolveApiKey(api_key) = None
       THEN /\ Exit1
            /\ UNCHANGED api_key
       ELSE /\ api_key' = ResolveApiKey(api_key)
            /\ pc' = CASE cmd = "sync" -> "validate_api_key"
                       [] cmd = "reset" -> "reset_confirm"
                       [] cmd = "status" -> "status_request"
            /\ UNCHANGED exit_code
    /\ UNCHANGED << cli_vars, util_vars, hist_vars, environ, requests, start_status, complete_status, result, prompted, confirm,
                    browser_vars, session_vars >>

(***************************************************************************)
(* validate_api_key (src/main.py 155-185): the start call.                 *)
(***************************************************************************)
\* validate_api_key without the `elif response.status_code != 200` branch:
\* only 401 and a transport failure stop the workflow
ValidateApiKeyOnly401(resp) ==
    /\ pc = "validate_api_key"
    /\ requests' = Append(requests,
                          Request("start", "POST", "/api/v1/browser_sync/start", api_key, NoBody))
    /\ start_status' = resp
    /\ IF resp \notin { "401", RequestError }
       THEN pc' = "run_browser_session" /\ UNCHANGED exit_code
       ELSE Exit1
    /\ UNCHANGED << cli_vars, util_vars, hist_vars, environ, api_key, complete_status, result, prompted, confirm,
                    browser_vars, session_vars >>

\* validate_api_key that tries again after a transport failure
ValidateApiKeyRetry(resp) ==
    /\ pc = "validate_api_key"
    /\ requests' = Append(requests,
                          Request("start", "POST", "/api/v1/browser_sync/start", api_key, NoBody))
    /\ start_status' = resp
    /\ IF resp = "200"
       THEN pc' = "run_browser_session" /\ UNCHANGED exit_code
       ELSE IF resp = RequestError /\ Len(requests) < 1
       THEN UNCHANGED << pc, exit_code >>
       ELSE Exit1
    /\ UNCHANGED << cli_vars, util_vars, hist_vars, environ, api_key, complete_status, result, prompted, confirm,
                    browser_vars, session_vars >>

ValidateApiKey(resp) ==
    /\ pc = "validate_api_key"
    /\ requests' = Append(requests,
                          Request("start", "POST", "/api/v1/browser_sync/start", api_key, NoBody))
    /\ start_status' = resp
    /\ IF resp = "200"
       THEN pc' = "run_browser_session" /\ UNCHANGED exit_code
       ELSE Exit1
    /\ UNCHANGED << cli_vars, util_vars, hist_vars, environ, api_key, complete_status, result, prompted, confirm,
                    browser_vars, session_vars >>

(***************************************************************************)
(* reset (src/main.py 512-576).                                            *)
(***************************************************************************)
\* reset without the `if not confirm: return`: the answer is asked for and
\* ignored
ResetConfirmIgnored(answer) ==
    /\ pc = "reset_confirm"
    /\ IF ~force
       THEN /\ prompted' = TRUE
            /\ confirm' = answer
       ELSE UNCHANGED << prompted, confirm >>
    /\ pc' = "reset_request"
    /\ UNCHANGED << cli_vars, util_vars, hist_vars, environ, api_key, requests, start_status, complete_status,
                    result, exit_code, browser_vars, session_vars >>

ResetConfirm(answer) ==
    /\ pc = "reset_confirm"
    /\ IF ~force
       THEN /\ prompted' = TRUE
            /\ confirm' = answer
            /\ IF answer # "y"
               THEN Return0
               ELSE pc' = "reset_request" /\ UNCHANGED exit_code
       ELSE /\ pc' = "reset_request"
            /\ UNCHANGED << prompted, confirm, exit_code >>
    /\ UNCHANGED << cli_vars, util_vars, hist_vars, environ, api_key, requests, start_status, complete_status, result,
                    browser_vars, session_vars >>

ResetRequest(resp) ==
    /\ pc = "reset_request"
    /\ requests' = Append(requests,
                          Request("reset", "DELETE", "/api/v1/browser_sync", api_key, NoBody))
    /\ IF resp = "200" THEN Return0 ELSE Exit1
    /\ UNCHANGED << cli_vars, util_vars, hist_vars, environ, api_key, start_status, complete_status, result, prompted, confirm,
                    browser_vars, session_vars >>

(***************************************************************************)
(* status (src/main.py 579-653).                                           *)
(***************************************************************************)
StatusRequest(resp) ==
    /\ pc = "status_request"
    /\ requests' = Append(requests,
                          Request("status", "GET", "/api/v1/browser_sync", api_key, NoBody))
    /\ IF resp = "200" THEN Return0 ELSE Exit1
    /\ UNCHANGED << cli_vars, util_vars, hist_vars, environ, api_key, start_status, complete_status, result, prompted, confirm,
                    browser_vars, session_vars >>

(***************************************************************************)
(* run_browser_session (src/main.py 220-369).                              *)
(***************************************************************************)
\* on_navigate assigning the set instead of adding to it
on_navigate_replacing(domains, url) ==
    LET domain == UrlDomains[url]
    IN  IF domain # "" THEN { domain } ELSE domains

\* on_navigate (308-311): the domain of the URL joins visited_domains unless
\* it is empty
on_navigate(domains, url) ==
    LET domain == UrlDomains[url]
    IN  IF domain # "" THEN domains \cup { domain } ELSE domains

\* the framenavigated listener without the `frame == page.main_frame` test
on_frame_navigated_any(domains, main, url) == on_navigate(domains, url)

\* the framenavigated listener (313): only the page's main frame counts
on_frame_navigated(domains, main, url) ==
    IF main THEN on_navigate(domains, url) ELSE domains

\* on_page_created (307-313), run by the context's "page" event when
\* context.on("page", ...) has registered it (315)
on_page_created(subs, page) == IF handler_set THEN subs \cup { page } ELSE subs

\* a framenavigated event of the browser on frame `main` of page p: the
\* listeners of p run; the history records the top-level ones
FrameNavigated(p, main, url) ==
    /\ visited_domains' = IF p \in subscribed
                          THEN on_frame_navigated(visited_domains, main, url)
                          ELSE visited_domains
    /\ top_domains' = IF main THEN top_domains \cup { UrlDomains[url] }
                      ELSE top_domains

\* p.chromium.launch, browser.new_context, expose_function, add_init_script
\* and context.on("page", ...) (227-315); a launch that raises ends the
\* process with a traceback
SessionLaunch(ok) ==
    /\ pc = "run_browser_session"
    /\ visited_domains' = {}
    /\ cookies' = << >>
    /\ sync_requested' = FALSE
    /\ IF ok
       THEN /\ browser' = "open"
            /\ reachable' = TRUE
            /\ handler_set' = TRUE
            /\ jar' = << >>
            /\ pc' = "new_page"
            /\ UNCHANGED exit_code
       ELSE /\ Exit1
            /\ UNCHANGED << browser, reachable, handler_set, jar >>
    /\ UNCHANGED << cli_vars, util_vars, hist_vars, environ, api_key, requests, start_status, complete_status, result, prompted,
                    confirm, pages, n_pages, subscribed, interrupted, session_result,
                    top_domains >>

\* page = context.new_page() (318): the context's "page" event fires
SessionNewPage ==
    /\ pc = "new_page"
    /\ n_pages' = n_pages + 1
    /\ pages' = pages \cup { n_pages + 1 }
    /\ subscribed' = on_page_created(subscribed, n_pages + 1)
    /\ pc' = "goto"
    /\ UNCHANGED << cli_vars, util_vars, hist_vars, environ, flow_vars, browser, reachable, handler_set, jar,
                    session_vars >>

\* page.set_content(...) in the except branch (325-331), which no try
\* encloses: it renders the static document, or raises when the page or the
\* browser is gone and the exception ends the process with a traceback
GotoFallback(rendered) ==
    IF rendered
    THEN pc' = "poll" /\ UNCHANGED << exit_code, pages >>
    ELSE Exit1 /\ pages' = {}

\* page.goto(welcome_url) (319-331): a navigation of the first page's main
\* frame, or, when it raises, page.set_content of the static document
SessionGoto(ok) ==
    /\ pc = "goto"
    /\ IF ok
       THEN /\ FrameNavigated(1, TRUE, get_welcome_url)
            /\ pc' = "poll"
            /\ UNCHANGED << exit_code, pages >>
       ELSE /\ UNCHANGED << visited_domains, top_domains >>
            /\ \E rendered \in BOOLEAN : GotoFallback(rendered)
    /\ UNCHANGED << cli_vars, util_vars, hist_vars, environ, api_key, requests, start_status,
                    complete_status, result, prompted, confirm, browser, reachable,
                    handler_set, n_pages, subscribed, jar, cookies, sync_requested,
                    interrupted, session_result >>

\* the read merged into the held snapshot: what the jar gave, then the held
\* cookies the jar no longer has
CookiesReadMerged ==
    /\ cookies' = jar \o SelectSeq(cookies, LAMBDA c : \A k \in DOMAIN jar : c # jar[k])
    /\ last_read' = jar
    /\ read_dropped' = \E i \in DOMAIN cookies : \A k \in DOMAIN jar : cookies[i] # jar[k]
    /\ UNCHANGED << filter_runs, exit_code >>

\* the read classified as it is taken: only the auth cookies are held
CookiesReadFiltered ==
    /\ cookies' = SelectSeq(jar, is_auth_cookie)
    /\ last_read' = jar
    /\ read_dropped' = \E i \in DOMAIN cookies : \A k \in DOMAIN jar : cookies[i] # jar[k]
    /\ filter_runs' = filter_runs + 1
    /\ UNCHANGED exit_code

\* cookies = context.cookies() when the call returns (338, 348)
CookiesRead ==
    /\ cookies' = jar
    /\ last_read' = jar
    /\ read_dropped' = \E i \in DOMAIN cookies : \A k \in DOMAIN jar : cookies[i] # jar[k]
    /\ UNCHANGED << filter_runs, exit_code >>

\* the inner handler with `continue` for `break`: the loop sleeps and retries
PollRaisedContinues ==
    /\ pc' = "sleep"
    /\ UNCHANGED << cookies, last_read, read_dropped, filter_runs, exit_code, loop_exit >>

\* the loop body without its inner handler: the exception ends the process
PollRaisedPropagates ==
    /\ Exit1
    /\ loop_exit' = "unreachable"
    /\ UNCHANGED << cookies, last_read, read_dropped, filter_runs >>

\* a browser call of the loop body raised: except Exception: break (350-352)
PollRaised ==
    /\ pc' = "close"
    /\ loop_exit' = "unreachable"
    /\ UNCHANGED << cookies, last_read, read_dropped, filter_runs, exit_code >>

\* the loop body with the page count tested before the finish signal
PollIterationPagesFirst ==
    /\ pc = "poll"
    /\ IF pages = {}
       THEN /\ pc' = "close"
            /\ loop_exit' = "closed"
            /\ UNCHANGED << cookies, last_read, read_dropped, filter_runs, exit_code >>
       ELSE IF ~reachable
       THEN PollRaised
       ELSE IF sync_requested
       THEN CookiesRead /\ pc' = "close" /\ loop_exit' = "signal"
       ELSE CookiesRead /\ pc' = "sleep" /\ UNCHANGED loop_exit
    /\ UNCHANGED << cli_vars, util_vars, environ, api_key, requests, start_status,
                    complete_status, result, prompted, confirm, browser_vars,
                    visited_domains, sync_requested, interrupted, session_result,
                    top_domains, close_raised >>

\* one pass through the body of `while True` (335-352), up to the sleep
PollIteration ==
    /\ pc = "poll"
    /\ IF sync_requested
       THEN \* Case A: context.cookies() then break
            IF reachable
            THEN CookiesRead /\ pc' = "close" /\ loop_exit' = "signal"
            ELSE PollRaised
       ELSE IF pages = {}
       THEN \* Case B
            /\ pc' = "close"
            /\ loop_exit' = "closed"
            /\ UNCHANGED << cookies, last_read, read_dropped, filter_runs, exit_code >>
       ELSE IF reachable
       THEN CookiesRead /\ pc' = "sleep" /\ UNCHANGED loop_exit
       ELSE PollRaised
    /\ UNCHANGED << cli_vars, util_vars, environ, api_key, requests, start_status,
                    complete_status, result, prompted, confirm, browser_vars,
                    visited_domains, sync_requested, interrupted, session_result,
                    top_domains, close_raised >>

\* a loop that gives up after the sleep instead of checking again
PollSleepLeaves ==
    /\ pc = "sleep"
    /\ pc' = "close"
    /\ UNCHANGED << cli_vars, util_vars, hist_vars, environ, flow_vars, browser_vars, session_vars >>

\* time.sleep(0.5) returns (349)
PollSleep ==
    /\ pc = "sleep"
    /\ pc' = "poll"
    /\ UNCHANGED << cli_vars, util_vars, hist_vars, environ, flow_vars, browser_vars, session_vars >>

\* KeyboardInterrupt inside the outer try (334-358): not an Exception, so the
\* inner handler lets it through and the outer one prints the message
KeyboardInterrupt ==
    /\ pc \in { "poll", "sleep" }
    /\ interrupted' = TRUE
    /\ loop_exit' = "interrupt"
    /\ pc' = "close"
    /\ UNCHANGED << last_read, read_dropped, filter_runs, close_raised >>
    /\ UNCHANGED << cli_vars, util_vars, environ, flow_vars, browser_vars, visited_domains, cookies,
                    sync_requested, session_result, top_domains >>

\* browser.close() outside any try: when it raises the process ends
SessionCloseUnguarded(raised) ==
    /\ pc = "close"
    /\ raised => (~reachable \/ pages = {})
    /\ close_raised' = raised
    /\ browser' = "closed"
    /\ reachable' = FALSE
    /\ pages' = {}
    /\ n_pages' = 0
    /\ subscribed' = {}
    /\ handler_set' = FALSE
    /\ jar' = << >>
    /\ IF raised THEN Exit1 ELSE pc' = "return" /\ UNCHANGED exit_code
    /\ UNCHANGED << cli_vars, util_vars, environ, api_key, requests, start_status,
                    complete_status, result, prompted, confirm, session_vars,
                    last_read, read_dropped, filter_runs, loop_exit >>

\* browser.close() in its own try/except (360-364): whether it succeeds or
\* raises ("already closed by user"), the context, its pages, its listeners
\* and its jar are gone
SessionClose(raised) ==
    /\ pc = "close"
    /\ raised => (~reachable \/ pages = {})
    /\ close_raised' = raised
    /\ browser' = "closed"
    /\ reachable' = FALSE
    /\ pages' = {}
    /\ n_pages' = 0
    /\ subscribed' = {}
    /\ handler_set' = FALSE
    /\ jar' = << >>
    /\ pc' = "return"
    /\ UNCHANGED << cli_vars, util_vars, environ, flow_vars, session_vars,
                    last_read, read_dropped, filter_runs, loop_exit >>

\* [c for c in cookies if is_auth_cookie(c)] (367)
AuthCookies(snapshot) == SelectSeq(snapshot, is_auth_cookie)

\* list(visited_domains): the elements of the set, once each, in some order
Orderings(S) ==
    { s \in [1..Cardinality(S) -> S] : \A i, j \in 1..Cardinality(S) : s[i] = s[j] => i = j }

\* run_browser_session returning the snapshot as read, without the filter
SessionResultUnfiltered(snapshot, domains) ==
    [cookies |-> snapshot, visited_domains |-> domains]

\* the tuple run_browser_session returns (366-369)
SessionResult(snapshot, domains) ==
    [cookies |-> AuthCookies(snapshot), visited_domains |-> domains]

SessionReturn ==
    /\ pc = "return"
    /\ \E order \in Orderings(visited_domains) :
          session_result' = SessionResult(cookies, order)
    /\ filter_runs' = filter_runs + 1
    /\ pc' = "complete_sync"
    /\ UNCHANGED << last_read, read_dropped, loop_exit, close_raised >>
    /\ UNCHANGED << cli_vars, util_vars, environ, flow_vars, browser_vars, visited_domains, cookies,
                    sync_requested, interrupted, top_domains >>

(***************************************************************************)
(* The browser and its user while the session is live.                     *)
(***************************************************************************)
BrowserLive == browser = "open" /\ reachable /\ pc \in { "poll", "sleep" }

\* a frame of an open page navigates
UserNavigate(p, main, url) ==
    /\ BrowserLive
    /\ p \in pages
    /\ FrameNavigated(p, main, url)
    /\ UNCHANGED << cli_vars, util_vars, hist_vars, environ, pc, flow_vars, browser_vars, cookies, sync_requested,
                    interrupted, session_result >>

\* the user opens a tab or a window of the context from one of its pages (a
\* link, window.open): the context's "page" event fires
UserOpenPage ==
    /\ BrowserLive
    /\ pages # {}
    /\ n_pages < MaxPages
    /\ n_pages' = n_pages + 1
    /\ pages' = pages \cup { n_pages + 1 }
    /\ subscribed' = on_page_created(subscribed, n_pages + 1)
    /\ UNCHANGED << cli_vars, util_vars, hist_vars, environ, pc, flow_vars, browser, reachable, handler_set, jar,
                    session_vars >>

\* the user closes a tab or a window
UserClosePage(p) ==
    /\ BrowserLive
    /\ p \in pages
    /\ pages' = pages \ { p }
    /\ UNCHANGED << cli_vars, util_vars, hist_vars, environ, pc, flow_vars, browser, reachable, handler_set,
                    n_pages, subscribed, jar, session_vars >>

\* the user clicks "Close & Sync" on a page: window.hyperaideCompleteSync()
\* runs on_sync_request (233-235, 263)
UserClickSync ==
    /\ BrowserLive
    /\ pages # {}
    /\ sync_requested' = TRUE
    /\ UNCHANGED << cli_vars, util_vars, hist_vars, environ, pc, flow_vars, browser_vars, visited_domains, cookies,
                    interrupted, session_result, top_domains >>

\* sites set, change and delete cookies
JarChange(j) ==
    /\ BrowserLive
    /\ j # jar
    /\ jar' = j
    /\ UNCHANGED << cli_vars, util_vars, hist_vars, environ, pc, flow_vars, browser, reachable, handler_set, pages,
                    n_pages, subscribed, session_vars >>

\* the browser process is killed or crashes; its pages may or may not have
\* been reported closed to the driver
BrowserCrash(reported) ==
    /\ BrowserLive
    /\ reachable' = FALSE
    /\ pages' = IF reported THEN {} ELSE pages
    /\ UNCHANGED << cli_vars, util_vars, hist_vars, environ, pc, flow_vars, browser, handler_set, n_pages,
                    subscribed, jar, session_vars >>

(***************************************************************************)
(* complete_sync (372-406) and the rest of sync_browser_auth (490-509).    *)
(***************************************************************************)
\* the JSON body of the complete call (390-393)
CompleteBody(cookie_list, domain_list) ==
    [cookies |-> cookie_list, visited_domains |-> domain_list]

CompleteSync(resp, sites) ==
    /\ pc = "complete_sync"
    /\ requests' = Append(requests,
                          Request("complete", "POST", "/api/v1/browser_sync/complete", api_key,
                                  CompleteBody(session_result.cookies,
                                               session_result.visited_domains)))
    /\ complete_status' = resp
    /\ IF resp = "200"
       THEN /\ result' = [connected_sites |-> sites]
            /\ pc' = "display_results"
            /\ UNCHANGED exit_code
       ELSE /\ Exit1
            /\ UNCHANGED result
    /\ UNCHANGED << cli_vars, util_vars, hist_vars, environ, api_key, start_status, prompted, confirm,
                    browser_vars, session_vars >>

\* display_results and the closing line (506-509)
DisplayResults ==
    /\ pc = "display_results"
    /\ Return0
    /\ UNCHANGED << cli_vars, util_vars, hist_vars, environ, api_key, requests, start_status, complete_status, result, prompted,
                    confirm, browser_vars, session_vars >>

(***************************************************************************)
(* The program.                                                            *)
(***************************************************************************)
Next ==
    \/ Callback
    \/ RequireApiKey
    \/ \E resp \in Responses : ValidateApiKey(resp)
    \/ \E ok \in BOOLEAN : SessionLaunch(ok)
    \/ SessionNewPage
    \/ \E ok \in BOOLEAN : SessionGoto(ok)
    \/ PollIteration
    \/ PollSleep
    \/ KeyboardInterrupt
    \/ \E raised \in BOOLEAN : SessionClose(raised)
    \/ SessionReturn
    \/ \E resp \in Responses, sites \in SiteLists : CompleteSync(resp, sites)
    \/ DisplayResults
    \/ \E answer \in Answers : ResetConfirm(answer)
    \/ \E resp \in Responses : ResetRequest(resp)
    \/ \E resp \in Responses : StatusRequest(resp)
    \/ \E p \in PageIds, main \in BOOLEAN, url \in NavUrls : UserNavigate(p, main, url)
    \/ UserOpenPage
    \/ \E p \in PageIds : UserClosePage(p)
    \/ UserClickSync
    \/ \E j \in Jars : JarChange(j)
    \/ \E reported \in BOOLEAN : BrowserCrash(reported)

Spec == Init /\ [][Next]_vars

(***************************************************************************)
(* The program under every setting of the environment, with a user who     *)
(* only closes the window.                                                 *)
(***************************************************************************)
InitUrl ==
    /\ cmd \in Commands
    /\ force \in (IF cmd = "reset" THEN BOOLEAN ELSE { FALSE })
    /\ dev \in BOOLEAN
    /\ environ \in [ HYPERAIDE_API_KEY : ApiKeyEnvs,
                     HYPERAIDE_API_URL : ApiUrlEnvsAll,
                     HYPERAIDE_DEV : DevEnvsAll ]
    /\ pc = "callback"
    /\ api_key \in ApiKeyArgs
    /\ Fresh
    /\ NoUtility

NextUrl ==
    \/ Callback
    \/ RequireApiKey
    \/ \E resp \in Responses : ValidateApiKey(resp)
    \/ \E ok \in BOOLEAN : SessionLaunch(ok)
    \/ SessionNewPage
    \/ \E ok \in BOOLEAN : SessionGoto(ok)
    \/ PollIteration
    \/ PollSleep
    \/ \E raised \in BOOLEAN : SessionClose(raised)
    \/ SessionReturn
    \/ \E resp \in Responses, sites \in SiteLists : CompleteSync(resp, sites)
    \/ DisplayResults
    \/ \E answer \in Answers : ResetConfirm(answer)
    \/ \E resp \in Responses : ResetRequest(resp)
    \/ \E resp \in Responses : StatusRequest(resp)
    \/ \E p \in PageIds : UserClosePage(p)

SpecUrl == InitUrl /\ [][NextUrl]_vars

(***************************************************************************)
(* One sync invocation with a token on the command line.                   *)
(***************************************************************************)
InitSession ==
    /\ cmd = "sync"
    /\ force = FALSE
    /\ dev = FALSE
    /\ environ = [ HYPERAIDE_API_KEY |-> None, HYPERAIDE_API_URL |-> None,
                   HYPERAIDE_DEV |-> None ]
    /\ pc = "callback"
    /\ api_key = "arg-key"
    /\ Fresh
    /\ NoUtility

NextSession ==
    \/ Callback
    \/ RequireApiKey
    \/ \E resp \in Responses : ValidateApiKey(resp)
    \/ \E ok \in BOOLEAN : SessionLaunch(ok)
    \/ SessionNewPage
    \/ \E ok \in BOOLEAN : SessionGoto(ok)
    \/ PollIteration
    \/ PollSleep
    \/ KeyboardInterrupt
    \/ \E raised \in BOOLEAN : SessionClose(raised)
    \/ SessionReturn
    \/ \E resp \in Responses, sites \in SiteLists : CompleteSync(resp, sites)
    \/ DisplayResults
    \/ \E p \in PageIds, main \in BOOLEAN, url \in NavUrls : UserNavigate(p, main, url)
    \/ UserOpenPage
    \/ \E p \in PageIds : UserClosePage(p)
    \/ UserClickSync
    \/ \E j \in Jars : JarChange(j)
    \/ \E reported \in BOOLEAN : BrowserCrash(reported)

SpecSession == InitSession /\ [][NextSession]_vars

\* the controller is one thread that runs its statements one after the other:
\* a pass of the loop body, the sleep, the close and the return each take
\* place once the control is at them
SpecLive ==
    /\ SpecSession
    /\ WF_vars(PollIteration)
    /\ WF_vars(PollSleep)
    /\ WF_vars(\E raised \in BOOLEAN : SessionClose(raised))
    /\ WF_vars(SessionReturn)

(***************************************************************************)
(* The utilities on their own: is_auth_cookie applied once to a cookie     *)
(* dict, normalize_domain applied to a string and again to its result.     *)
(***************************************************************************)
InitUtil ==
    /\ cmd = "sync"
    /\ force = FALSE
    /\ dev = FALSE
    /\ environ = [ HYPERAIDE_API_KEY |-> None, HYPERAIDE_API_URL |-> None,
                   HYPERAIDE_DEV |-> None ]
    /\ pc = "callback"
    /\ api_key = None
    /\ Fresh
    /\ \/ fn = "normalize_domain" /\ fn_arg \in DomainStrings
       \/ fn = "is_auth_cookie" /\ fn_arg \in CookieDicts
    /\ fn_val = << >>

ApplyNormalizeDomain ==
    /\ fn = "normalize_domain"
    /\ Len(fn_val) < 2
    /\ fn_val' = Append(fn_val, normalize_domain(IF fn_val = << >> THEN fn_arg
                                                  ELSE fn_val[Len(fn_val)]))
    /\ UNCHANGED << cli_vars, environ, pc, flow_vars, browser_vars, session_vars,
                    hist_vars, fn, fn_arg >>

ApplyIsAuthCookie ==
    /\ fn = "is_auth_cookie"
    /\ fn_val = << >>
    /\ fn_val' = << is_auth_cookie(fn_arg) >>
    /\ UNCHANGED << cli_vars, environ, pc, flow_vars, browser_vars, session_vars,
                    hist_vars, fn, fn_arg >>

NextUtil ==
    \/ ApplyNormalizeDomain
    \/ ApplyIsAuthCookie

SpecUtil == InitUtil /\ [][NextUtil]_vars

(***************************************************************************)
(* Vocabulary of the properties.                                           *)
(***************************************************************************)
Range(seq) == { seq[i] : i \in DOMAIN seq }

\* the calls of one kind issued so far
Issued(op) == { i \in DOMAIN requests : requests[i].op = op }

\* run_browser_session has returned its tuple
SessionReturned == "cookies" \in DOMAIN session_result

\* complete_sync has returned a dict
CompleteReturned == "connected_sites" \in DOMAIN result

\* the process has ended
Ended == pc \in { "done", "exit" }

Fatal == pc = "exit" /\ exit_code = "1"

(***************************************************************************)
(* C1.  A session cancelled by KeyboardInterrupt while the polling loop    *)
(* runs returns an empty cookie sequence and an empty domain sequence,     *)
(* whatever had been read or visited before.                               *)
(***************************************************************************)
C1_CancelledSessionReturnsNothing ==
    (interrupted /\ SessionReturned) =>
        /\ session_result.cookies = << >>
        /\ session_result.visited_domains = << >>

(***************************************************************************)
(* C2.  When the session returns no cookie that passed is_auth_cookie, the *)
(* sync workflow never issues the complete call.                           *)
(***************************************************************************)
C2_NoCompleteWithoutAuthCookies ==
    (SessionReturned /\ session_result.cookies = << >>) => Issued("complete") = {}

(***************************************************************************)
(* C3.  A complete call answered with status 400 makes complete_sync       *)
(* return a result whose connected-sites list is empty, and the process    *)
(* does not exit with a non-zero status.                                   *)
(***************************************************************************)
C3_Complete400YieldsEmptyResult ==
    complete_status = "400" =>
        /\ ~Fatal
        /\ CompleteReturned
        /\ result.connected_sites = << >>

(***************************************************************************)
(* C4.  When a session ends without interrupt, the domains it returns are  *)
(* exactly the non-empty normalized domains of the top-level-frame         *)
(* navigations that occurred on any page of the context, each once:        *)
(* sub-frame navigations add nothing and no top-level domain is missing.   *)
(***************************************************************************)
C4_DomainsAreTopLevelNavigations ==
    (SessionReturned /\ ~interrupted) =>
        /\ Range(session_result.visited_domains) = top_domains \ { "" }
        /\ Len(session_result.visited_domains) = Cardinality(top_domains \ { "" })

\* an uninterrupted session returned a.com and sub.b.com after navigations
\* that also produced an empty domain
C4_Witness ==
    /\ SessionReturned
    /\ ~interrupted
    /\ "" \in top_domains
    /\ { "a.com", "sub.b.com" } \subseteq Range(session_result.visited_domains)

(***************************************************************************)
(* C5.  The body of the complete request carries as cookies exactly the    *)
(* cookies of the controller's final snapshot that pass is_auth_cookie, in *)
(* the snapshot's order, and as visited_domains exactly the accumulated    *)
(* domain set, each domain once; the call is made with the token start     *)
(* accepted.                                                               *)
(***************************************************************************)
C5_CompleteBodyIsFilteredSnapshot ==
    \A i \in Issued("complete") :
        /\ start_status = "200"
        /\ requests[i].key = requests[1].key
        /\ requests[i].body.cookies = SelectSeq(cookies, is_auth_cookie)
        /\ \A k \in DOMAIN cookies :
              is_auth_cookie(cookies[k]) <=> cookies[k] \in Range(requests[i].body.cookies)
        /\ Range(requests[i].body.visited_domains) = visited_domains
        /\ Len(requests[i].body.visited_domains) = Cardinality(visited_domains)

\* the session of the example: a.com and sub.b.com visited, auth_token and
\* theme captured, only auth_token uploaded
C5_Witness ==
    \E i \in Issued("complete") :
        /\ cookies = << CookieAuthToken, CookieTheme >>
        /\ requests[i].body.cookies = << CookieAuthToken >>
        /\ Range(requests[i].body.visited_domains) = { "a.com", "sub.b.com" }

(***************************************************************************)
(* C6.  The steps of sync come in the order start, browser session,        *)
(* complete: no browser before start has returned 200, no complete call    *)
(* before the session controller has returned.                             *)
(***************************************************************************)
C6_StartThenSessionThenComplete ==
    /\ (browser # "none" \/ pc \in { "run_browser_session", "new_page", "goto" }) =>
          /\ start_status = "200"
          /\ Issued("start") = { 1 }
    /\ ~SessionReturned => Issued("complete") = {}
    /\ \A i \in Issued("complete") :
          /\ i = 2
          /\ Issued("start") = { 1 }
          /\ browser = "closed"

\* the complete call has been issued
C6_Witness ==
    /\ Issued("complete") # {}
    /\ SessionReturned
    /\ browser = "closed"

(***************************************************************************)
(* C7.  A start call answered with 401, with another non-200 status, or    *)
(* failing in transport ends the workflow with sys.exit(1): no browser is  *)
(* launched and no complete call is issued.                                *)
(***************************************************************************)
C7_FailedStartIsFatal ==
    (start_status # None /\ start_status # "200") =>
        /\ Fatal
        /\ browser = "none"
        /\ Issued("complete") = {}
        /\ ~SessionReturned

\* the start call failed in transport
C7_Witness == start_status = RequestError /\ Fatal /\ Len(requests) = 1

(***************************************************************************)
(* C8.  In each command, without a non-empty token from the argument or    *)
(* the environment the process exits non-zero before any remote call, any  *)
(* prompt and any browser; a non-empty argument is the token used,         *)
(* otherwise the environment's value is.                                   *)
(***************************************************************************)
C8_NothingBeforeToken ==
    /\ pc \in { "callback", "require_api_key" } =>
          requests = << >> /\ ~prompted /\ browser = "none"
    /\ (requests # << >> \/ prompted \/ browser # "none") => Truthy(api_key)
    /\ \A i \in DOMAIN requests : requests[i].key = api_key

C8_TokenResolution ==
    pc = "require_api_key" =>
        IF Truthy(api_key)
        THEN api_key' = api_key /\ pc' # "exit"
        ELSE IF Truthy(environ.HYPERAIDE_API_KEY)
        THEN api_key' = environ.HYPERAIDE_API_KEY /\ pc' # "exit"
        ELSE /\ pc' = "exit"
             /\ exit_code' = "1"
             /\ requests' = << >>
             /\ ~prompted'
             /\ browser' = "none"

\* C8: nothing remote, no prompt and no browser happens before a token is
\* resolved, require_api_key takes the non-empty argument, else the non-empty
\* environment value, else exits with status 1
C8_MissingTokenIsFatal == [] C8_NothingBeforeToken /\ [][C8_TokenResolution]_vars

\* reset --force with no option and an empty environment variable has exited
C8_Witness ==
    /\ cmd = "reset"
    /\ force
    /\ api_key = None
    /\ environ.HYPERAIDE_API_KEY = ""
    /\ Fatal
    /\ requests = << >>

(***************************************************************************)
(* C9.  No remote call is retried: each of start, complete, reset and      *)
(* status is issued at most once in an invocation, whatever it comes back  *)
(* with.                                                                   *)
(***************************************************************************)
C9_EachCallAtMostOnce ==
    /\ \A op \in { "start", "complete", "reset", "status" } : Cardinality(Issued(op)) <= 1
    /\ \A i \in DOMAIN requests :
          requests[i].op \in (CASE cmd = "sync" -> { "start", "complete" }
                                [] cmd = "reset" -> { "reset" }
                                [] cmd = "status" -> { "status" })
    /\ (start_status # None /\ start_status # "200") => (Ended /\ Len(requests) = 1)
    /\ (complete_status # None /\ complete_status # "200") => (Ended /\ Len(requests) = 2)

\* the complete call failed and the process ended with the two calls made
C9_Witness ==
    /\ complete_status = "500"
    /\ Fatal
    /\ Cardinality(Issued("start")) = 1
    /\ Cardinality(Issued("complete")) = 1

(***************************************************************************)
(* C10.  In reset the DELETE call is issued if and only if --force is set  *)
(* or the user answers the prompt with yes; with --force there is no       *)
(* prompt; when the user declines, no remote call is made and reset        *)
(* returns normally.                                                       *)
(***************************************************************************)
\* C10 as stated: at the end of a reset invocation the DELETE call has been
\* issued if and only if --force was set or the answer was yes
C10_ResetIffForceOrConfirmed ==
    (cmd = "reset" /\ Ended) =>
        /\ Issued("reset") # {} <=> (force \/ confirm = "y")
        /\ force => ~prompted
        /\ confirm = "n" => (requests = << >> /\ pc = "done" /\ exit_code = "0")

\* C10 amended: the equivalence holds for the invocations in which
\* require_api_key found a token; without one no call and no prompt happen
C10_ResetIffForceOrConfirmedGivenToken ==
    cmd = "reset" =>
        /\ Issued("reset") # {} => (force \/ confirm = "y")
        /\ (Ended /\ Truthy(api_key)) =>
              (Issued("reset") # {} <=> (force \/ confirm = "y"))
        /\ (Ended /\ ~Truthy(api_key)) => (requests = << >> /\ ~prompted /\ Fatal)
        /\ force => ~prompted
        /\ confirm = "n" => (requests = << >> /\ pc = "done" /\ exit_code = "0")
        /\ prompted => confirm \in Answers

\* the user declined and reset returned without a call
C10_Witness ==
    /\ cmd = "reset"
    /\ prompted
    /\ confirm = "n"
    /\ pc = "done"
    /\ requests = << >>

(***************************************************************************)
(* C11.  Every remote call targets one of exactly two base URLs, chosen    *)
(* by the --dev flag alone (the local one with the flag, the production    *)
(* one without), and start and complete of one sync target the same one.   *)
(***************************************************************************)
\* the path each call is made to
PathOf(op) ==
    CASE op = "start" -> "/api/v1/browser_sync/start"
      [] op = "complete" -> "/api/v1/browser_sync/complete"
      [] OTHER -> "/api/v1/browser_sync"

\* the call's URL without that path
BaseUrl(req) == SubSeq(req.url, 1, Len(req.url) - Len(PathOf(req.op)))

SameBaseUrl ==
    \A i, j \in DOMAIN requests : BaseUrl(requests[i]) = BaseUrl(requests[j])

\* C11 as stated
C11_BaseUrlByDevFlagAlone ==
    /\ \A i \in DOMAIN requests :
          /\ requests[i].url = BaseUrl(requests[i]) \o PathOf(requests[i].op)
          /\ BaseUrl(requests[i]) = (IF dev THEN DEV_API_URL ELSE DEFAULT_API_URL)
    /\ SameBaseUrl

\* C11 amended: a non-empty HYPERAIDE_API_URL, its trailing slashes removed,
\* comes first; then the local URL when --dev was given or HYPERAIDE_DEV is
\* "1" in the environment; then the production URL; one base per invocation
C11_BaseUrlByOverrideThenDev ==
    /\ \A i \in DOMAIN requests :
          /\ requests[i].url = BaseUrl(requests[i]) \o PathOf(requests[i].op)
          /\ BaseUrl(requests[i]) =
                (IF environ.HYPERAIDE_API_URL = "http://staging.test/"
                 THEN "http://staging.test"
                 ELSE IF dev \/ environ.HYPERAIDE_DEV = "1" THEN DEV_API_URL
                 ELSE DEFAULT_API_URL)
    /\ SameBaseUrl

\* a sync with --dev and the override set has made both calls
C11_Witness ==
    /\ dev
    /\ environ.HYPERAIDE_API_URL = "http://staging.test/"
    /\ Issued("start") # {}
    /\ Issued("complete") # {}
    /\ \A i \in DOMAIN requests : BaseUrl(requests[i]) = "http://staging.test"


(***************************************************************************)
(* C12.  normalize_domain applied twice.                                   *)
(***************************************************************************)
\* C12: normalize_domain is idempotent: applied to its own result it gives
\* that result back, for every string over '.', 'w', 'a', 'W'
C12_NormalizeDomainIdempotent ==
    (fn = "normalize_domain" /\ Len(fn_val) = 2) => fn_val[2] = fn_val[1]

(***************************************************************************)
(* C13.  What is_auth_cookie answers.                                      *)
(***************************************************************************)
\* the pattern set as the specification lists it
C13_Patterns ==
    { "session", "token", "auth", "jwt", "login", "user", "sid", "csrf",
      "_session", "_token", "_auth", "access", "refresh", "id_token" }

\* the lower-cased name has one of the patterns as a substring
C13_NameMatches(cookie) ==
    LET name == StrLower(IF "name" \in DOMAIN cookie THEN cookie.name ELSE "")
    IN  \E p \in C13_Patterns : \E i \in 1..Len(name) :
            /\ i + Len(p) - 1 <= Len(name)
            /\ SubSeq(name, i, i + Len(p) - 1) = p

C13_HttpOnly(cookie) == "httpOnly" \in DOMAIN cookie /\ cookie.httpOnly

\* C13: is_auth_cookie answers true exactly when the lower-cased name contains
\* a pattern or the cookie is http-only; sessionid is true, theme is false,
\* an http-only theme is true, a cookie with no name and no flag is false
C13_AuthCookieIffPatternOrHttpOnly ==
    (fn = "is_auth_cookie" /\ Len(fn_val) = 1) =>
        /\ fn_val[1] <=> (C13_NameMatches(fn_arg) \/ C13_HttpOnly(fn_arg))
        /\ fn_arg = [name |-> "sessionid", httpOnly |-> FALSE] => fn_val[1]
        /\ fn_arg = [name |-> "theme", httpOnly |-> FALSE] => ~fn_val[1]
        /\ fn_arg = [name |-> "theme", httpOnly |-> TRUE] => fn_val[1]
        /\ ("name" \notin DOMAIN fn_arg /\ "httpOnly" \notin DOMAIN fn_arg) => ~fn_val[1]

\* a mixed-case name without the flag has been classified, and as auth
C13_Witness ==
    /\ fn = "is_auth_cookie"
    /\ fn_arg = [name |-> "SessionID", httpOnly |-> FALSE]
    /\ fn_val = << TRUE >>

(***************************************************************************)
(* C14.  visited_domains over the steps of a session.                      *)
(***************************************************************************)
\* a framenavigated event of the top-level frame of a page reached its
\* listener: the welcome navigation or one by the user
TopLevelNavigation ==
    \/ SessionGoto(TRUE)
    \/ \E p \in PageIds, url \in NavUrls : UserNavigate(p, TRUE, url)

\* the steps of the controller that are not navigation callbacks: the loop
\* body with its checks and its cookie read, the sleep, the interrupt, the
\* close, the return
ControllerStep ==
    \/ PollIteration
    \/ PollSleep
    \/ KeyboardInterrupt
    \/ \E raised \in BOOLEAN : SessionClose(raised)
    \/ SessionReturn

\* C14: every step leaves visited_domains a superset of what it was; only a
\* top-level navigation callback adds to it; the cookie poll and the other
\* controller steps leave it unchanged
C14_VisitedDomainsOnlyGrow ==
    [][ /\ visited_domains \subseteq visited_domains'
        /\ visited_domains' # visited_domains => TopLevelNavigation
        /\ ControllerStep => visited_domains' = visited_domains ]_vars

\* two domains were collected, the jar was polled, the close was attempted
C14_Witness ==
    /\ Cardinality(visited_domains) >= 2
    /\ last_read # << >>
    /\ browser = "closed"

(***************************************************************************)
(* C15.  The snapshot is the last read.                                    *)
(***************************************************************************)
\* a pass of the loop body whose context.cookies() call returns
SuccessfulRead ==
    PollIteration /\ reachable /\ (sync_requested \/ pages # {})

\* the snapshot changes only by a read, and a read leaves exactly what the
\* jar gave
C15_ReadReplaces ==
    /\ SuccessfulRead => cookies' = jar
    /\ cookies' # cookies => SuccessfulRead

\* an uninterrupted session returns the filtered content of the last read
\* that succeeded, and nothing that read did not give
C15_ReturnsLastRead ==
    (SessionReturned /\ ~interrupted) =>
        /\ session_result.cookies = SelectSeq(last_read, is_auth_cookie)
        /\ Range(session_result.cookies) \subseteq Range(last_read)

\* C15: each successful read of the jar replaces the held snapshot, so an
\* uninterrupted session returns the auth cookies of its last successful
\* read and no cookie that only an earlier read gave
C15_ReturnedCookiesAreLastRead ==
    [] C15_ReturnsLastRead /\ [][C15_ReadReplaces]_vars

\* an uninterrupted session returned auth cookies after its last read had
\* replaced a snapshot holding a cookie that read did not give
C15_Witness ==
    /\ SessionReturned
    /\ ~interrupted
    /\ read_dropped
    /\ session_result.cookies # << >>

(***************************************************************************)
(* C16.  When the is_auth_cookie filter runs.                              *)
(***************************************************************************)
\* the filter has run at most once, and once exactly when the session has
\* returned; until then the held snapshot is a read as the jar gave it
C16_FilterRunsOnceAtReturn ==
    /\ filter_runs <= 1
    /\ SessionReturned <=> filter_runs = 1
    /\ filter_runs = 0 => cookies = last_read

\* the step that filters comes after the loop and the close, and filters the
\* held snapshot; a pass of the loop holds what it read and does not filter
C16_FilterStep ==
    /\ filter_runs' # filter_runs =>
          /\ pc = "return"
          /\ loop_exit # None
          /\ browser = "closed"
          /\ filter_runs' = filter_runs + 1
          /\ cookies' = cookies
          /\ session_result'.cookies = SelectSeq(cookies, is_auth_cookie)
    /\ PollIteration => filter_runs' = filter_runs
    /\ SuccessfulRead => cookies' = jar

\* C16: is_auth_cookie classifies once per session, after the polling loop has
\* ended and browser.close() has been attempted, and classifies the final
\* snapshot; no pass of the loop filters what it reads
C16_ClassifiedOnceAfterClose ==
    [] C16_FilterRunsOnceAtReturn /\ [][C16_FilterStep]_vars

\* the loop held a snapshot with a cookie that is not an auth cookie, and the
\* one filter run at the return left it out
C16_Witness ==
    /\ filter_runs = 1
    /\ \E i \in DOMAIN cookies : cookies[i] = CookieTheme
    /\ session_result.cookies = << CookieAuthToken >>

(***************************************************************************)
(* C17.  How the polling loop is left.                                     *)
(***************************************************************************)
\* the controller is inside `while True`
InLoop == pc \in { "poll", "sleep" }

\* what a pass of the loop body tests: the finish signal, the page count, and
\* whether the browser call it makes raises
LoopEnds == sync_requested \/ pages = {} \/ ~reachable

\* inside the loop nothing has been returned and no exit has been taken
C17_NoReturnInLoop ==
    InLoop => (~SessionReturned /\ loop_exit = None /\ browser = "open")

\* a step that leaves the loop is the interrupt, or a pass of the body that
\* found the signal, no page, or an unreachable browser; any other pass reads
\* the jar and sleeps, and the sleep leads to the next pass
C17_LoopStep ==
    /\ (InLoop /\ pc' \notin { "poll", "sleep" }) =>
          /\ pc' = "close"
          /\ \/ KeyboardInterrupt
             \/ PollIteration /\ LoopEnds
          /\ loop_exit' = IF interrupted' THEN "interrupt"
                          ELSE IF sync_requested /\ reachable THEN "signal"
                          ELSE IF ~sync_requested /\ pages = {} THEN "closed"
                          ELSE "unreachable"
    /\ (PollIteration /\ ~LoopEnds) => (pc' = "sleep" /\ cookies' = jar)
    /\ PollSleep => pc' = "poll"

\* C17: the polling loop is left only by a pass that finds the finish signal
\* set, no open page, or the browser unreachable, or by an interrupt; while
\* none holds, the loop goes on reading the jar and does not return
C17_LoopLeftOnlyOnTermination ==
    [] C17_NoReturnInLoop /\ [][C17_LoopStep]_vars

\* the loop read the jar, went on, and was then left because no page was open
C17_Witness ==
    /\ pc = "close"
    /\ loop_exit = "closed"
    /\ last_read # << >>
    /\ ~sync_requested
    /\ reachable

(***************************************************************************)
(* C18.  The session ends once a termination condition holds.              *)
(***************************************************************************)
\* C18: when, inside the loop, every page has been closed, the finish signal
\* has been delivered or the browser has become unreachable, the controller
\* leaves the loop, attempts browser.close() and returns a result
C18_SessionEventuallyReturns ==
    (InLoop /\ LoopEnds) ~> (SessionReturned /\ browser = "closed" /\ loop_exit # None)

\* the finish signal was delivered while pages were open, and the session
\* has closed the browser and returned
C18_Witness ==
    /\ SessionReturned
    /\ loop_exit = "signal"
    /\ browser = "closed"
    /\ ~interrupted

(***************************************************************************)
(* C19.  A browser that stops answering.                                   *)
(***************************************************************************)
\* the loop was left because a browser call raised
Unreachable == loop_exit = "unreachable"

\* C19: when the loop is left because the browser is unreachable, the session
\* goes on to the close and returns the filtered last read and the domains
\* collected; the process exits with an error only if the complete call
\* fails, and that call carries what the session returned
C19_UnreachableEndsSoftly ==
    Unreachable =>
        /\ pc \in { "close", "return", "complete_sync", "display_results", "done", "exit" }
        /\ pc \in { "close", "return" } <=> ~SessionReturned
        /\ SessionReturned =>
              /\ session_result.cookies = SelectSeq(last_read, is_auth_cookie)
              /\ Range(session_result.visited_domains) = visited_domains
        /\ pc \in { "display_results", "done", "exit" } =>
              /\ Issued("complete") # {}
              /\ \A i \in Issued("complete") :
                    requests[i].body = CompleteBody(session_result.cookies,
                                                    session_result.visited_domains)
        /\ Fatal => complete_status \notin { None, "200" }
        /\ pc = "done" => (complete_status = "200" /\ CompleteReturned)

\* the browser died with pages open after a read that gave auth cookies, and
\* the sync ran to its end
C19_Witness ==
    /\ Unreachable
    /\ pc = "done"
    /\ session_result.cookies # << >>
    /\ session_result.visited_domains # << >>

(***************************************************************************)
(* C20.  The close attempt.                                                *)
(***************************************************************************)
\* browser.close() is being attempted
CloseAttempt == \E raised \in BOOLEAN : SessionClose(raised)

\* between the loop and the close the browser has not been closed by the
\* controller; from the close on it has, whatever the way out of the loop;
\* a close that raised leaves the process running and the result what the
\* snapshot and the domains give; an interrupted controller is out of the loop
C20_ClosedBeforeReturn ==
    /\ loop_exit \in { None, "closed", "signal", "unreachable", "interrupt" }
    /\ (loop_exit # None /\ pc = "close") => browser = "open"
    /\ (loop_exit # None /\ pc # "close") => browser = "closed"
    /\ SessionReturned => (browser = "closed" /\ loop_exit # None)
    /\ interrupted => (~InLoop /\ loop_exit = "interrupt")
    /\ close_raised =>
          /\ pc = "return" \/ SessionReturned
          /\ Fatal => complete_status \notin { None, "200" }
          /\ SessionReturned =>
                /\ session_result.cookies = SelectSeq(cookies, is_auth_cookie)
                /\ Range(session_result.visited_domains) = visited_domains

\* the close is attempted on an open browser only, so once; it changes
\* neither the snapshot nor the domains; after an interrupt no read takes
\* place and the snapshot stays what it was
C20_CloseStep ==
    /\ CloseAttempt =>
          /\ browser = "open" /\ browser' = "closed"
          /\ loop_exit # None
          /\ pc' = "return"
          /\ cookies' = cookies /\ visited_domains' = visited_domains
    /\ browser' = "closed" /\ browser # "closed" => CloseAttempt
    /\ interrupted => (~PollIteration /\ cookies' = cookies /\ last_read' = last_read)

\* C20: on every way out of the polling loop browser.close() is attempted
\* once before the return; after an interrupt the jar is not read again; a
\* close that raises does not end the process and does not change the
\* returned cookies and domains
C20_CloseAttemptedOnce ==
    [] C20_ClosedBeforeReturn /\ [][C20_CloseStep]_vars

\* the user closed the window, browser.close() raised, and the session
\* returned the auth cookies of its snapshot and the sync completed
C20_Witness ==
    /\ close_raised
    /\ loop_exit = "closed"
    /\ SessionReturned
    /\ session_result.cookies # << >>
    /\ pc = "done"

(***************************************************************************)
(* C21.  The welcome navigation fails.                                     *)
(***************************************************************************)
\* C21: once the browser is launched, a failure of the welcome navigation
\* does not end the process: until the polling loop has been left the
\* process is running, and the loop is entered with the first page's
\* navigation listener registered
C21_WelcomeFailureNeverAborts ==
    (browser = "open" /\ loop_exit = None) =>
        /\ ~Fatal
        /\ InLoop => (handler_set /\ 1 \in subscribed)

(***************************************************************************)
(* C22.  The finish signal against the page count.                         *)
(***************************************************************************)
\* a loop left for want of pages had no signal, and what it returns is the
\* snapshot the last read before that check left
C22_ClosedReturnsHeldSnapshot ==
    loop_exit = "closed" =>
        /\ ~sync_requested
        /\ cookies = last_read
        /\ SessionReturned => session_result.cookies = SelectSeq(last_read, is_auth_cookie)

\* the signal stays set; the pass that finds it set leaves the loop, open
\* pages or not, after attempting one read of the jar; the pass that finds no
\* page and no signal leaves without a read
C22_SignalStep ==
    /\ sync_requested => sync_requested'
    /\ (PollIteration /\ sync_requested) =>
          /\ pc' = "close"
          /\ IF reachable
             THEN cookies' = jar /\ last_read' = jar /\ loop_exit' = "signal"
             ELSE cookies' = cookies /\ loop_exit' = "unreachable"
    /\ (PollIteration /\ ~sync_requested /\ pages = {}) =>
          /\ pc' = "close"
          /\ loop_exit' = "closed"
          /\ cookies' = cookies /\ last_read' = last_read

\* C22: the finish signal is never cleared once delivered and is tested
\* first: the next pass of the loop ends it, even with no page open, after
\* attempting a fresh read of the jar; a loop ended by the page count reads
\* nothing more and returns the snapshot of the pass before (empty when there
\* was none)
C22_SignalLatchedAndFirst ==
    [] C22_ClosedReturnsHeldSnapshot /\ [][C22_SignalStep]_vars

\* the signal was delivered, every page was closed, and the loop ended on the
\* signal with a fresh read of the jar
C22_Witness ==
    /\ pc = "close"
    /\ loop_exit = "signal"
    /\ pages = {}
    /\ cookies # << >>
====
